---- MODULE Spec2Model ----
(***************************************************************************)
(* A model of the MediaShare "hello world" FastAPI service                 *)
(* (phase1/mediaahare-complete/ansible/files/fastapi_hello/main.py).       *)
(*                                                                         *)
(* The process reads three environment variables and the wall clock once,  *)
(* at import, and then serves GET /, /health, /metadata and /ready.  The   *)
(* handlers are coroutines without an await, so each one runs to its end   *)
(* on the event loop before another starts: a request is one step here,    *)
(* and concurrent requests are served in any order.  The world around the  *)
(* process moves too: the wall clock advances and can be stepped back, the *)
(* machine can be renamed, and the process environment can be written.     *)
(*                                                                         *)
(* Times are integers in milliseconds.  uptime_seconds, which the code     *)
(* rounds to two decimals, is an integer number of hundredths of a second. *)
(***************************************************************************)
EXTENDS Integers, Sequences, FiniteSets

VARIABLES
    environ,         \* os.environ now: a function from the names that are set
    startEnviron,    \* os.environ as it was when the module was imported
    APP_VERSION,     \* main.py:13
    ENVIRONMENT,     \* main.py:14
    CLOUD_PROVIDER,  \* main.py:15
    START_TIME,      \* main.py:32, in ms
    clock,           \* what time.time() and datetime.utcnow() read, in ms
    hostname,        \* what socket.gethostname() returns
    inflight,        \* the requests received and not yet answered
    log              \* the requests answered, each with its response, in order

vars == <<environ, startEnviron, APP_VERSION, ENVIRONMENT, CLOUD_PROVIDER,
          START_TIME, clock, hostname, inflight, log>>

config == <<APP_VERSION, ENVIRONMENT, CLOUD_PROVIDER, START_TIME>>

(***************************************************************************)
(* Bounds of the model.                                                    *)
(***************************************************************************)
\* requests received in one run
MaxRequests == 2
\* requests received in one run that starts from any environment
MaxBootRequests == 1
\* the last millisecond the clock reaches
MaxClock == 18
\* the clock's step in ms
TickMs == 6
\* writes to the process environment after startup
MaxEnvWrites == 1

(***************************************************************************)
(* The inputs.                                                             *)
(***************************************************************************)
EnvNames == {"APP_VERSION", "ENVIRONMENT", "CLOUD_PROVIDER"}

\* what a variable that is set holds at startup: the empty string, or some text
EnvStrings == {"", "custom"}

\* what a later write to the environment stores
LateString == "late"

\* every os.environ over the three names: each one unset or set to a string
Environs == UNION {[D -> EnvStrings] : D \in SUBSET EnvNames}

\* three of them: nothing set, everything set, and one name of each kind
\* (set to text, set to the empty string, unset)
SampleEnvirons ==
    {[k \in {} |-> ""],
     [k \in EnvNames |-> "custom"],
     [k \in {"APP_VERSION", "ENVIRONMENT"} |->
         IF k = "APP_VERSION" THEN "custom" ELSE ""]}

Hostnames == {"host-a", "host-b"}

ClockReadings == {t \in 0..MaxClock : t % TickMs = 0}

\* the four routes of main.py
AppPaths == {"/", "/health", "/metadata", "/ready"}

\* FastAPI's own documentation route (docs_url is left at its default)
DocsPath == "/docs"

\* a path nothing is registered for
UnknownPath == "/nope"

Paths == AppPaths \cup {DocsPath, UnknownPath}

Requests == [method : {"GET"}, path : Paths]
              \cup [method : {"POST"}, path : {"/health", UnknownPath}]

\* the exceptions socket.gethostname() is let raise: one whose str() is
\* empty and one with a message
NoError == [cls |-> "none", args |-> <<>>]
Exceptions == {[cls |-> "OSError", args |-> <<>>],
               [cls |-> "OSError", args |-> <<"hostname lookup failed">>]}
Lookups == {NoError} \cup Exceptions

(***************************************************************************)
(* Library functions, as the code uses them.                               *)
(***************************************************************************)
\* a bug: os.getenv(key) or default, which takes an empty value for unset
getenv_or_default(env, key, default) ==
    IF key \in DOMAIN env /\ env[key] # "" THEN env[key] ELSE default

\* os.getenv(key, default): the value when the key is set, else the default
getenv(env, key, default) ==
    IF key \in DOMAIN env THEN env[key] ELSE default

\* str(exc) of an exception built from no argument or from one string
str(exc) ==
    IF exc.args = <<>> THEN "" ELSE exc.args[1]

\* round(x, 2) of x = ms/1000 seconds, in hundredths: to the nearest
\* hundredth, a tie to the even one (\div rounds down, % is never negative)
round2(ms) ==
    LET q == ms \div 10
        r == ms % 10
    IN  IF r < 5 THEN q
        ELSE IF r > 5 THEN q + 1
        ELSE IF q % 2 = 0 THEN q ELSE q + 1

\* datetime.utcnow().isoformat(): whole seconds, and the microseconds after
\* them, which are printed only when they are not zero
isoformat(ms) ==
    IF ms % 1000 = 0
    THEN [seconds |-> ms \div 1000]
    ELSE [seconds |-> ms \div 1000, microsecond |-> (ms % 1000) * 1000]

\* a bug: the name is looked up once and kept (the first name a response
\* carried is the one every later response carries)
gethostname_cached(lookup) ==
    LET known == {i \in 1..Len(log) :
                     /\ log[i].response.status_code = 200
                     /\ "hostname" \in DOMAIN log[i].response.content}
        first == CHOOSE i \in known : \A j \in known : i <= j
    IN  IF lookup # NoError THEN [raised |-> TRUE, exc |-> lookup]
        ELSE IF known = {} THEN [raised |-> FALSE, value |-> hostname]
        ELSE [raised |-> FALSE,
              value |-> log[first].response.content.hostname]

\* socket.gethostname(): the machine's name now, or the error it raises
gethostname(lookup) ==
    IF lookup = NoError
    THEN [raised |-> FALSE, value |-> hostname]
    ELSE [raised |-> TRUE, exc |-> lookup]

(***************************************************************************)
(* The handlers.  Each gives what the coroutine returns, or the exception  *)
(* that leaves it.                                                         *)
(***************************************************************************)
Return(body) == [raised |-> FALSE, value |-> body]

Raise(exc) == [raised |-> TRUE, exc |-> exc]

\* a bug: the version is written into the handler
root_fixed_version ==
    Return([message |-> "Welcome to MediaShare API",
            version |-> "1.0.0",
            docs    |-> "/docs",
            health  |-> "/health"])

root ==
    Return([message |-> "Welcome to MediaShare API",
            version |-> APP_VERSION,
            docs    |-> "/docs",
            health  |-> "/health"])

health_check(lookup) ==
    LET name == gethostname(lookup)
    IN  IF name.raised THEN Raise(name.exc)
        ELSE Return([status         |-> "healthy",
                     timestamp      |-> isoformat(clock),
                     hostname       |-> name.value,
                     environment    |-> ENVIRONMENT,
                     cloud_provider |-> CLOUD_PROVIDER,
                     version        |-> APP_VERSION,
                     uptime_seconds |-> round2(clock - START_TIME)])

\* a bug: the handler reads the environment again at each request
instance_metadata_rereads(lookup) ==
    LET name == gethostname(lookup)
    IN  IF name.raised THEN Raise(name.exc)
        ELSE Return([hostname       |-> name.value,
                     environment    |-> getenv(environ, "ENVIRONMENT",
                                               "development"),
                     cloud_provider |-> getenv(environ, "CLOUD_PROVIDER",
                                               "unknown"),
                     version        |-> getenv(environ, "APP_VERSION",
                                               "1.0.0")])

instance_metadata(lookup) ==
    LET name == gethostname(lookup)
    IN  IF name.raised THEN Raise(name.exc)
        ELSE Return([hostname       |-> name.value,
                     environment    |-> ENVIRONMENT,
                     cloud_provider |-> CLOUD_PROVIDER,
                     version        |-> APP_VERSION])

\* a bug: not ready until some uptime has passed
readiness_check_warmup ==
    Return([status |-> IF clock > START_TIME THEN "ready" ELSE "starting"])

readiness_check ==
    Return([status |-> "ready"])

\* FastAPI's Swagger page, served at docs_url
swagger_ui ==
    Return([html |-> "swagger-ui"])

JSONResponse(status_code, content) ==
    [status_code |-> status_code, content |-> content]

global_exception_handler(exc) ==
    JSONResponse(500, [error     |-> "Internal Server Error",
                       detail    |-> str(exc),
                       timestamp |-> isoformat(clock)])

(***************************************************************************)
(* The application: routing, and what becomes of an exception.             *)
(***************************************************************************)
HTTPException(status_code, detail) ==
    [cls |-> "HTTPException", status_code |-> status_code, detail |-> detail]

\* a bug: an HTTPException is answered by the 500 fallback
http_exception_handler_fallback(exc) ==
    JSONResponse(500, [error     |-> "Internal Server Error",
                       detail    |-> exc.detail,
                       timestamp |-> isoformat(clock)])

\* the handler the framework itself registers for HTTPException
http_exception_handler(exc) ==
    JSONResponse(exc.status_code, [detail |-> exc.detail])

\* the routes registered on app, every one of them for GET alone
Registered == AppPaths \cup {DocsPath}

endpoint(path, lookup) ==
    CASE path = "/"         -> root
      [] path = "/health"   -> health_check(lookup)
      [] path = "/metadata" -> instance_metadata(lookup)
      [] path = "/ready"    -> readiness_check
      [] path = DocsPath    -> swagger_ui

\* the router: no route for the path is a 404, a route for another method a 405
route(req, lookup) ==
    IF req.path \notin Registered
    THEN Raise(HTTPException(404, "Not Found"))
    ELSE IF req.method # "GET"
    THEN Raise(HTTPException(405, "Method Not Allowed"))
    ELSE endpoint(req.path, lookup)

\* which registered handler takes an exception: the most specific class
\* wins, so the framework's own takes an HTTPException and main.py's the rest
handle_exception(exc) ==
    IF exc.cls = "HTTPException"
    THEN http_exception_handler(exc)
    ELSE global_exception_handler(exc)

\* one request through the application
app(req, lookup) ==
    LET out == route(req, lookup)
    IN  IF out.raised THEN handle_exception(out.exc)
        ELSE JSONResponse(200, out.value)

\* the requests whose handler looks the hostname up
LooksUpHostname(req) ==
    req.method = "GET" /\ req.path \in {"/health", "/metadata"}

(***************************************************************************)
(* The state machine.                                                      *)
(***************************************************************************)
\* the module's import: lines 13-15 read the environment, line 32 the clock
Import(envs) ==
    /\ environ \in envs
    /\ startEnviron = environ
    /\ APP_VERSION = getenv(environ, "APP_VERSION", "1.0.0")
    /\ ENVIRONMENT = getenv(environ, "ENVIRONMENT", "development")
    /\ CLOUD_PROVIDER = getenv(environ, "CLOUD_PROVIDER", "unknown")
    /\ clock = TickMs
    /\ START_TIME = clock
    /\ hostname \in Hostnames
    /\ inflight = {}
    /\ log = <<>>

Init == Import(SampleEnvirons)

BootInit == Import(Environs)

\* a request arrives
Receive(req, most) ==
    /\ req \notin inflight
    /\ Len(log) + Cardinality(inflight) < most
    /\ inflight' = inflight \cup {req}
    /\ UNCHANGED <<environ, startEnviron, config, clock, hostname, log>>

\* a bug: a handler refreshes the configuration from the environment
Serve_reloads(req, lookup) ==
    /\ req \in inflight
    /\ lookup = NoError \/ LooksUpHostname(req)
    /\ log' = Append(log, [request |-> req, response |-> app(req, lookup)])
    /\ inflight' = inflight \ {req}
    /\ APP_VERSION' = getenv(environ, "APP_VERSION", "1.0.0")
    /\ ENVIRONMENT' = getenv(environ, "ENVIRONMENT", "development")
    /\ CLOUD_PROVIDER' = getenv(environ, "CLOUD_PROVIDER", "unknown")
    /\ UNCHANGED <<environ, startEnviron, START_TIME, clock, hostname>>

\* a bug: the exception ends the process, and nothing is served after a 500
Serve_until_failure(req, lookup) ==
    /\ req \in inflight
    /\ lookup = NoError \/ LooksUpHostname(req)
    /\ \A i \in 1..Len(log) : log[i].response.status_code # 500
    /\ log' = Append(log, [request |-> req, response |-> app(req, lookup)])
    /\ inflight' = inflight \ {req}
    /\ UNCHANGED <<environ, startEnviron, config, clock, hostname>>

\* the event loop runs the handler of one of the requests in flight
Serve(req, lookup) ==
    /\ req \in inflight
    /\ lookup = NoError \/ LooksUpHostname(req)
    /\ log' = Append(log, [request |-> req, response |-> app(req, lookup)])
    /\ inflight' = inflight \ {req}
    /\ UNCHANGED <<environ, startEnviron, config, clock, hostname>>

\* time passes
Tick ==
    /\ clock + TickMs <= MaxClock
    /\ clock' = clock + TickMs
    /\ UNCHANGED <<environ, startEnviron, config, hostname, inflight, log>>

\* the wall clock is set back (NTP, an operator)
StepBack(t) ==
    /\ t < clock
    /\ clock' = t
    /\ UNCHANGED <<environ, startEnviron, config, hostname, inflight, log>>

\* the machine gets another name
Rename(name) ==
    /\ name # hostname
    /\ hostname' = name
    /\ UNCHANGED <<environ, startEnviron, config, clock, inflight, log>>

\* the names whose value is no longer what it was at startup
Written ==
    {k \in EnvNames :
        (k \in DOMAIN environ) # (k \in DOMAIN startEnviron)
        \/ (k \in DOMAIN environ /\ environ[k] # startEnviron[k])}

\* os.environ[key] = value, after startup
Putenv(key, value) ==
    /\ Cardinality(Written \cup {key}) <= MaxEnvWrites
    /\ environ' = [k \in DOMAIN environ \cup {key} |->
                       IF k = key THEN value ELSE environ[k]]
    /\ environ' # environ
    /\ UNCHANGED <<startEnviron, config, clock, hostname, inflight, log>>

Step(most) ==
    \/ \E req \in Requests : Receive(req, most)
    \/ \E req \in Requests, lookup \in Lookups : Serve(req, lookup)
    \/ Tick
    \/ \E t \in ClockReadings : StepBack(t)
    \/ \E name \in Hostnames : Rename(name)
    \/ \E key \in EnvNames : Putenv(key, LateString)

Next == Step(MaxRequests)

BootNext == Step(MaxBootRequests)

\* a few environments, and MaxRequests requests
Spec == Init /\ [][Next]_vars

\* every environment, and MaxBootRequests requests
BootSpec == BootInit /\ [][BootNext]_vars

\* the process with its environment variables left alone after startup
ServingNext ==
    \/ \E req \in Requests : Receive(req, MaxRequests)
    \/ \E req \in Requests, lookup \in Lookups : Serve(req, lookup)
    \/ Tick
    \/ \E t \in ClockReadings : StepBack(t)
    \/ \E name \in Hostnames : Rename(name)

\* the event loop gets to every request in flight
Served(req) == \E lookup \in Lookups : Serve(req, lookup)

FairSpec ==
    Init /\ [][ServingNext]_vars /\ \A req \in Requests : WF_vars(Served(req))

(***************************************************************************)
(* What the properties below read off the log.                             *)
(***************************************************************************)
Get(path) == [method |-> "GET", path |-> path]

Answered == {log[i] : i \in 1..Len(log)}

\* the entries that answer GET path with a 200
Ok(path) ==
    {e \in Answered : e.request = Get(path) /\ e.response.status_code = 200}

\* the 500 fallback, whatever its detail and timestamp
IsFallback(response) ==
    /\ response.status_code = 500
    /\ DOMAIN response.content = {"error", "detail", "timestamp"}

\* what a name held when the process started, or the default of an unset one
AtStart(key, default) ==
    IF key \in DOMAIN startEnviron THEN startEnviron[key] ELSE default

\* the instant an ISO timestamp names, in ms
Instant(ts) ==
    ts.seconds * 1000
      + (IF "microsecond" \in DOMAIN ts THEN ts.microsecond \div 1000 ELSE 0)

Abs(n) == IF n < 0 THEN 0 - n ELSE n

(***************************************************************************)
(* C1.  Every /health response has uptime_seconds >= 0, at least the       *)
(* uptime of every earlier /health response, and within 0.01 s of          *)
(* (time of the call - START_TIME): for every behaviour of the wall clock, *)
(* a step backwards included.  uptime_seconds is in hundredths, the times  *)
(* in ms.                                                                  *)
(***************************************************************************)
C1_UptimeContract ==
    \A i \in 1..Len(log) :
        log[i] \in Ok("/health") =>
            LET body == log[i].response.content
            IN  /\ body.uptime_seconds >= 0
                /\ \A j \in 1..(i - 1) :
                       log[j] \in Ok("/health") =>
                           log[j].response.content.uptime_seconds
                               <= body.uptime_seconds
                /\ Abs(10 * body.uptime_seconds
                         - (Instant(body.timestamp) - START_TIME)) <= 10

(***************************************************************************)
(* C2.  The environment, cloud_provider and version of every /health       *)
(* response and of every /metadata response are the values the three       *)
(* environment variables had when the process started, and so are equal    *)
(* between any two such responses.                                         *)
(***************************************************************************)
ReflectsStart(body) ==
    /\ body.environment = AtStart("ENVIRONMENT", "development")
    /\ body.cloud_provider = AtStart("CLOUD_PROVIDER", "unknown")
    /\ body.version = AtStart("APP_VERSION", "1.0.0")

C2_SameConfig ==
    /\ \A e \in Ok("/health") \cup Ok("/metadata") :
           ReflectsStart(e.response.content)
    /\ \A h \in Ok("/health"), m \in Ok("/metadata") :
           /\ h.response.content.environment = m.response.content.environment
           /\ h.response.content.cloud_provider
                  = m.response.content.cloud_provider
           /\ h.response.content.version = m.response.content.version

\* both routes answered, ENVIRONMENT was "custom" at startup and is written
\* to since
C2_Witness ==
    /\ \E h \in Ok("/health") : h.response.content.environment = "custom"
    /\ \E m \in Ok("/metadata") : m.response.content.environment = "custom"
    /\ "ENVIRONMENT" \in DOMAIN environ
    /\ environ["ENVIRONMENT"] = LateString

(***************************************************************************)
(* C3.  A request whose handler raised is answered with status 500 and a   *)
(* body whose error is "Internal Server Error" and whose detail is not     *)
(* empty, whatever the exception, one with an empty message included.      *)
(***************************************************************************)
C3_FallbackDetail ==
    \A e \in Answered :
        e.response.status_code = 500 =>
            /\ e.response.content.error = "Internal Server Error"
            /\ e.response.content.detail # ""

Configured(value, key, default) ==
    /\ key \notin DOMAIN startEnviron => value = default
    /\ key \in DOMAIN startEnviron => value = startEnviron[key]

C5_Defaults ==
    /\ Configured(APP_VERSION, "APP_VERSION", "1.0.0")
    /\ Configured(ENVIRONMENT, "ENVIRONMENT", "development")
    /\ Configured(CLOUD_PROVIDER, "CLOUD_PROVIDER", "unknown")

\* one variable unset, one empty and one set, and /metadata has reported them
C5_Witness ==
    /\ "APP_VERSION" \notin DOMAIN startEnviron
    /\ "ENVIRONMENT" \in DOMAIN startEnviron
    /\ startEnviron["ENVIRONMENT"] = ""
    /\ "CLOUD_PROVIDER" \in DOMAIN startEnviron
    /\ startEnviron["CLOUD_PROVIDER"] = "custom"
    /\ \E m \in Ok("/metadata") :
           /\ m.response.content.version = "1.0.0"
           /\ m.response.content.environment = ""
           /\ m.response.content.cloud_provider = "custom"

(***************************************************************************)
(* C6.  GET / is always answered with a 200 whose version is the           *)
(* APP_VERSION configured at startup and whose docs and health are         *)
(* "/docs" and "/health", whatever was requested before.                   *)
(***************************************************************************)
C6_Root ==
    \A e \in Answered :
        e.request = Get("/") =>
            /\ e.response.status_code = 200
            /\ e.response.content.version = AtStart("APP_VERSION", "1.0.0")
            /\ e.response.content.docs = "/docs"
            /\ e.response.content.health = "/health"

\* GET / answered after a request that ended in the fallback, with a version
\* that is not the default
C6_Witness ==
    /\ Len(log) = 2
    /\ IsFallback(log[1].response)
    /\ log[2].request = Get("/")
    /\ log[2].response.content.version = "custom"

(***************************************************************************)
(* C7.  GET /ready is always answered with status 200 and the body         *)
(* {"status": "ready"}, with no other field.                               *)
(***************************************************************************)
C7_Ready ==
    \A e \in Answered :
        e.request = Get("/ready") =>
            e.response = [status_code |-> 200,
                          content |-> [status |-> "ready"]]

\* GET /ready answered after a fallback, with the environment written to and
\* the clock before the start time
C7_Witness ==
    /\ Len(log) = 2
    /\ IsFallback(log[1].response)
    /\ log[2].request = Get("/ready")
    /\ clock < START_TIME
    /\ Written # {}

(***************************************************************************)
(* C8.  A request that ends in the 500 fallback does not stop the process: *)
(* a request to one of the four routes that is in flight after it is       *)
(* answered in the end, and with what the route answers anyway: / and      *)
(* /ready their fixed 200, /health and /metadata a 200 with the values of  *)
(* startup (or the fallback of their own failed lookup).                   *)
(***************************************************************************)
AsAlways(e) ==
    CASE e.request.path = "/" ->
           e.response = JSONResponse(200,
               [message |-> "Welcome to MediaShare API",
                version |-> AtStart("APP_VERSION", "1.0.0"),
                docs    |-> "/docs",
                health  |-> "/health"])
      [] e.request.path = "/ready" ->
           e.response = JSONResponse(200, [status |-> "ready"])
      [] e.request.path = "/metadata" ->
           \/ IsFallback(e.response)
           \/ /\ e.response.status_code = 200
              /\ DOMAIN e.response.content
                   = {"hostname", "environment", "cloud_provider", "version"}
              /\ ReflectsStart(e.response.content)
      [] e.request.path = "/health" ->
           \/ IsFallback(e.response)
           \/ /\ e.response.status_code = 200
              /\ e.response.content.status = "healthy"
              /\ ReflectsStart(e.response.content)

Failed == \E e \in Answered : IsFallback(e.response)

AnsweredAfterFailure(path) ==
    \E i \in 1..Len(log), j \in 1..Len(log) :
        /\ i < j
        /\ IsFallback(log[i].response)
        /\ log[j].request = Get(path)
        /\ AsAlways(log[j])

C8_ServesAfterFailure ==
    \A path \in AppPaths :
        (Failed /\ Get(path) \in inflight) ~> AnsweredAfterFailure(path)

\* /metadata answered with a 200 after a request that ended in the fallback
C8_Witness ==
    /\ Failed
    /\ AnsweredAfterFailure("/metadata")
    /\ log[Len(log)].response.status_code = 200

(***************************************************************************)
(* C9.  The hostname of a /health or /metadata response is the machine's   *)
(* name at the moment the request is served: a change of name shows in     *)
(* every response served after it.                                         *)
(***************************************************************************)
C9_LiveHostname ==
    [][Len(log') > Len(log) =>
         LET e == log'[Len(log')]
         IN  (/\ e.response.status_code = 200
              /\ e.request.path \in {"/health", "/metadata"})
                 => e.response.content.hostname = hostname]_vars

\* two responses carry two names, the later one the name of now
C9_Witness ==
    /\ Len(log) = 2
    /\ log[1] \in Ok("/health") \cup Ok("/metadata")
    /\ log[2] \in Ok("/health") \cup Ok("/metadata")
    /\ log[1].response.content.hostname # log[2].response.content.hostname
    /\ log[2].response.content.hostname = hostname

(***************************************************************************)
(* C10.  No step changes APP_VERSION, ENVIRONMENT, CLOUD_PROVIDER or       *)
(* START_TIME: not a handler, not the fallback, not a write to the process *)
(* environment, in whatever order requests are served.  And in every state *)
(* each route answers, its time and hostname fields aside, what the        *)
(* environment of startup makes it answer, whatever was served or written  *)
(* before.                                                                 *)
(***************************************************************************)
Stable(response) ==
    [status_code |-> response.status_code,
     content |-> [f \in DOMAIN response.content
                          \ {"timestamp", "uptime_seconds", "hostname"} |->
                      response.content[f]]]

\* what each route answers now
RouteAnswers == [path \in AppPaths |-> Stable(app(Get(path), NoError))]

\* what each route answers by the environment of startup
StartAnswers ==
    [path \in AppPaths |->
        JSONResponse(200,
            CASE path = "/" ->
                   [message |-> "Welcome to MediaShare API",
                    version |-> AtStart("APP_VERSION", "1.0.0"),
                    docs    |-> "/docs",
                    health  |-> "/health"]
              [] path = "/health" ->
                   [status         |-> "healthy",
                    environment    |-> AtStart("ENVIRONMENT", "development"),
                    cloud_provider |-> AtStart("CLOUD_PROVIDER", "unknown"),
                    version        |-> AtStart("APP_VERSION", "1.0.0")]
              [] path = "/metadata" ->
                   [environment    |-> AtStart("ENVIRONMENT", "development"),
                    cloud_provider |-> AtStart("CLOUD_PROVIDER", "unknown"),
                    version        |-> AtStart("APP_VERSION", "1.0.0")]
              [] path = "/ready" ->
                   [status |-> "ready"])]

C10_ReadOnlyConfig ==
    /\ [][config' = config]_vars
    /\ [](RouteAnswers = StartAnswers)

\* the environment is written to after startup, one request is answered with
\* the values of startup and another is in flight
C10_Witness ==
    /\ "APP_VERSION" \in DOMAIN environ
    /\ environ["APP_VERSION"] = LateString
    /\ \E m \in Ok("/metadata") :
           m.response.content.version = AtStart("APP_VERSION", "1.0.0")
    /\ inflight # {}

====
